---- MODULE Spec2Model ----
(***************************************************************************)
(* governator daemon (daemon.go): the service registry, the configuration  *)
(* watcher, the control server with its per-connection handlers and the    *)
(* startup / shutdown sequence of daemonMain.                              *)
(*                                                                         *)
(* Service (Start, Stop, State, logger.monitor), Config, ParseConfig and   *)
(* newService live outside daemon.go; they are modelled from the state     *)
(* machine the specification gives for them.                               *)
(*                                                                         *)
(* Steps that change no variable are stuttering steps of [Next]_vars and   *)
(* have no action of their own: an event for a file shouldIgnoreFile       *)
(* rejects (daemon.go:64-66) and a watcher.Error receipt (113-114).        *)
(***************************************************************************)
EXTENDS Integers, Sequences, FiniteSets, TLC

\* ------------------------------------------------------------------ bounds
MaxFile == 2
MaxPrio == 2
MaxSvc == 3
MaxBoot == 2
MaxConn == 2
\* size of a run: configurations loaded at boot, plus watcher events
\* received, plus connections accepted
MaxWork == 3

\* capacity of the conns channel, make(chan net.Conn, 10)
ConnsCap == 10

Files   == 1..MaxFile
Prios   == 1..MaxPrio
SvcIds  == 1..MaxSvc
ConnIds == 1..MaxConn

\* a parsed configuration: source file and priority
Config == [file : Files, prio : Prios]

\* the slot of a Service that newService has not allocated yet
NilSvc == [cfg |-> [file |-> 0, prio |-> 0], state |-> "Nil", mon |-> 0]

\* ParseConfigs: one configuration per file of the directory, in any order
BootConfigs ==
  {cs \in UNION {[1..n -> Config] : n \in 0..MaxBoot} :
     \A i, j \in DOMAIN cs : i # j => cs[i].file # cs[j].file}

\* fsnotify event kinds, in the order the switch of startWatching tests them
Kinds == {"create", "delete", "rename", "modify", "attrib"}

\* no event in hand
NoEv == [kind |-> "none", file |-> 0, prio |-> 0]

\* the goroutines that call Service.Start / Service.Stop concurrently:
\* the watcher, the connection handlers and the shutdown stop tasks
WatcherId == <<"w", 0>>
HandlerId(h) == <<"h", h>>
TaskId(s) == <<"t", s>>
Callers == {WatcherId} \cup {HandlerId(h) : h \in ConnIds} \cup {TaskId(s) : s \in SvcIds}

\* no call of a Service method in progress
NoCall == [op |-> "none", svc |-> 0, phase |-> "none", res |-> "none"]

\* a quit: two channels of capacity 1
newQuit == [stop |-> 0, stopped |-> 0]

VARIABLES
  configs,     \* daemonMain: the result of ParseConfigs()
  svc,         \* the Service objects, by address
  nsvc,        \* number of Service objects allocated by newService
  list,        \* services.list
  lock,        \* holder of services.Mutex: "none", "main", "watcher", "handler"
  mainpc,      \* position of daemonMain
  call,        \* per goroutine: the Service method call it is in
  wpc,         \* position of the watcher goroutine
  watching,    \* watcher.Watch(*configDir) succeeded
  wev,         \* the event the watcher goroutine is handling
  quitWatcher, \* daemonMain: quitWatcher
  quitServer,  \* daemonMain: quitServer
  di,          \* daemonMain: ii of the shutdown loop
  wg,          \* daemonMain: the WaitGroup counter
  tpc,         \* per service: position of its shutdown stop task
  nev,         \* number of events the watcher goroutine has received
  spc,         \* position of the server goroutine of startServer
  conns,       \* startServer: the conns channel
  nacc,        \* number of times server.Accept() has returned
  hpc,         \* per connection: position of its serveConn goroutine
  hcmd,        \* serveConn: cmd
  hname,       \* serveConn: args[1]
  hst,         \* serveConn: st
  hbuf,        \* serveConn: the rows of the list command written to w so far
  resp         \* per connection: the responses written with encodeResponse

mainVars == <<configs, mainpc, di, wg>>
regVars == <<svc, nsvc, list>>
watcherVars == <<wpc, watching, wev, nev>>
quitVars == <<quitWatcher, quitServer>>
taskVars == <<tpc>>
serverVars == <<spc, conns, nacc>>
handlerVars == <<hpc, hcmd, hname, hst, hbuf, resp>>

vars == <<configs, svc, nsvc, list, lock, mainpc, call, wpc, watching, wev, nev,
          quitWatcher, quitServer, di, wg, tpc, spc, conns, nacc, hpc, hcmd, hname,
          hst, hbuf, resp>>

\* the process has not died of a panic
Alive == mainpc # "panic"

\* what the run has used of MaxWork
Work == Len(configs) + nev + nacc

\* ---------------------------------------------------------------- sorting
Priority(sv, s) == sv[s].cfg.prio

\* servicesByPriority.Less
Less(sv, a, b) == Priority(sv, a) < Priority(sv, b)

RECURSIVE InsertStable(_, _, _)
\* x goes behind every element that is not greater than it
InsertStable(sv, x, seq) ==
  IF seq = <<>> THEN <<x>>
  ELSE IF Less(sv, x, Head(seq)) THEN <<x>> \o seq
       ELSE <<Head(seq)>> \o InsertStable(sv, x, Tail(seq))

RECURSIVE StableSort(_, _)
StableSort(sv, seq) ==
  IF seq = <<>> THEN <<>>
  ELSE InsertStable(sv, seq[Len(seq)], StableSort(sv, SubSeq(seq, 1, Len(seq) - 1)))

RECURSIVE InsertBeforeEqual(_, _, _)
\* x goes in front of every element that is not less than it
InsertBeforeEqual(sv, x, seq) ==
  IF seq = <<>> THEN <<x>>
  ELSE IF ~Less(sv, Head(seq), x) THEN <<x>> \o seq
       ELSE <<Head(seq)>> \o InsertBeforeEqual(sv, x, Tail(seq))

RECURSIVE SortUnstable(_, _)
\* a sort that orders by priority but turns equal elements around
SortUnstable(sv, seq) ==
  IF seq = <<>> THEN <<>>
  ELSE InsertBeforeEqual(sv, seq[Len(seq)], SortUnstable(sv, SubSeq(seq, 1, Len(seq) - 1)))

\* servicesByPriority(services.list).Sort()
Sort(sv, seq) == StableSort(sv, seq)

\* newService(cfg): a Service in state Stopped with no log monitor
newService(cfg) == [cfg |-> cfg, state |-> "Stopped", mon |-> 0]

\* a search that goes on to the last service of that file
FindFileLast(sv, seq, name) ==
  LET hits == {i \in DOMAIN seq : sv[seq[i]].cfg.file = name}
  IN IF hits = {} THEN 0 ELSE CHOOSE i \in hits : \A j \in hits : i >= j

\* index of the first service of the list whose Config.File is name, 0 if none
FindFile(sv, seq, name) ==
  LET hits == {i \in DOMAIN seq : sv[seq[i]].cfg.file = name}
  IN IF hits = {} THEN 0 ELSE CHOOSE i \in hits : \A j \in hits : i <= j

\* append(services.list[:ii], services.list[ii+1:]...)
RemoveAt(seq, ii) == SubSeq(seq, 1, ii - 1) \o SubSeq(seq, ii + 1, Len(seq))

\* ------------------------------------------------------------------- Init
Init ==
  /\ configs \in BootConfigs
  /\ svc = [s \in SvcIds |-> NilSvc]
  /\ nsvc = 0
  /\ list = <<>>
  /\ lock = "none"
  /\ mainpc = "boot"
  /\ call = [p \in Callers |-> NoCall]
  /\ wpc = "unstarted"
  /\ watching = FALSE
  /\ wev = NoEv
  /\ quitWatcher = newQuit
  /\ quitServer = newQuit
  /\ di = 0
  /\ wg = 0
  /\ tpc = [s \in SvcIds |-> "none"]
  /\ nev = 0
  /\ spc = "unstarted"
  /\ conns = <<>>
  /\ nacc = 0
  /\ hpc = [h \in ConnIds |-> "idle"]
  /\ hcmd = [h \in ConnIds |-> ""]
  /\ hname = [h \in ConnIds |-> 0]
  /\ hst = [h \in ConnIds |-> 0]
  /\ hbuf = [h \in ConnIds |-> <<>>]
  /\ resp = [h \in ConnIds |-> <<>>]

\* ---------------------------------------------------------------- Service
\* a goroutine invokes s.Start() or s.Stop()
Invoke(p, op, s) == [call EXCEPT ![p] = [op |-> op, svc |-> s, phase |-> "called", res |-> "none"]]

Returned(p) == call[p].phase = "returned"

\* the state from which a method is legal
Legal(op, st) == IF op = "Start" THEN st \in {"Stopped", "Failed"} ELSE st = "Started"

\* the transient state of a method in progress
Transient(op) == IF op = "Start" THEN "Starting" ELSE "Stopping"

\* Service.Start / Service.Stop take effect: from a legal state the service
\* enters Starting / Stopping; from any other state the call fails at once
\* (AlreadyRunning / NotRunning) and changes nothing
Service_Enter(p) ==
  /\ Alive
  /\ call[p].phase = "called"
  /\ LET s == call[p].svc
         op == call[p].op
     IN IF Legal(op, svc[s].state)
        THEN /\ svc' = [svc EXCEPT ![s].state = Transient(op)]
             /\ call' = [call EXCEPT ![p].phase = "running"]
        ELSE /\ call' = [call EXCEPT ![p].phase = "returned", ![p].res = "err"]
             /\ UNCHANGED svc
  /\ UNCHANGED <<nsvc, list, lock, mainVars, watcherVars, quitVars, taskVars, serverVars, handlerVars>>

\* the method returns: Start ends in Started or Failed, Stop in Stopped or,
\* when it fails, back in Started
Service_Finish(p) ==
  /\ Alive
  /\ call[p].phase = "running"
  /\ LET s == call[p].svc
         op == call[p].op
     IN \E ok \in BOOLEAN :
          /\ svc' = [svc EXCEPT ![s].state =
                       IF op = "Start" THEN (IF ok THEN "Started" ELSE "Failed")
                       ELSE (IF ok THEN "Stopped" ELSE "Started")]
          /\ call' = [call EXCEPT ![p].phase = "returned",
                                  ![p].res = IF ok THEN "ok" ELSE "err"]
  /\ UNCHANGED <<nsvc, list, lock, mainVars, watcherVars, quitVars, taskVars, serverVars, handlerVars>>

\* ------------------------------------------------------------- daemonMain
\* services.Lock(); services.list = make(...)
Main_BootLock ==
  /\ mainpc = "boot"
  /\ lock = "none"
  /\ lock' = "main"
  /\ mainpc' = "bootLoop"
  /\ UNCHANGED <<configs, di, wg, regVars, call, watcherVars, quitVars, taskVars, serverVars, handlerVars>>

\* one iteration of the boot loop: newService, list[ii] = s, s.Start().
\* No other goroutine exists yet, so the call runs to its end in one step,
\* in Started or in Failed.  list holds the slots filled so far, which are
\* the services in the order of their Start() calls.
Main_BootStart ==
  /\ mainpc = "bootLoop"
  /\ Len(list) < Len(configs)
  /\ LET s == nsvc + 1 IN
       /\ \E st \in {"Started", "Failed"} :
            svc' = [svc EXCEPT ![s] = [newService(configs[Len(list) + 1]) EXCEPT !.state = st]]
       /\ nsvc' = s
       /\ list' = Append(list, s)
  /\ UNCHANGED <<configs, mainpc, di, wg, lock, call, watcherVars, quitVars, taskVars, serverVars, handlerVars>>

\* servicesByPriority(services.list).Sort(); services.Unlock()
Main_BootSort ==
  /\ mainpc = "bootLoop"
  /\ Len(list) = Len(configs)
  /\ list' = Sort(svc, list)
  /\ lock' = "none"
  /\ mainpc' = "startWatching"
  /\ UNCHANGED <<configs, di, wg, svc, nsvc, call, watcherVars, quitVars, taskVars, serverVars, handlerVars>>

\* startWatching(quitWatcher): NewWatcher fails (no goroutine), or the
\* goroutine is spawned and Watch fails or succeeds; an error is only logged
Main_StartWatching ==
  /\ mainpc = "startWatching"
  /\ \E out \in {"ok", "errNew", "errWatch"} :
       /\ wpc' = IF out = "errNew" THEN "absent" ELSE "select"
       /\ watching' = (out = "ok")
  /\ mainpc' = "startServer"
  /\ UNCHANGED <<configs, di, wg, regVars, lock, call, wev, nev, quitVars, taskVars, serverVars, handlerVars>>

\* startServer(quitServer): Listen fails (no goroutine), or the accept
\* goroutine and the server goroutine are spawned; an error is only logged
Main_StartServer ==
  /\ mainpc = "startServer"
  /\ \E out \in {"ok", "errListen"} :
       spc' = IF out = "errListen" THEN "absent" ELSE "loop"
  /\ mainpc' = "waitSignal"
  /\ UNCHANGED <<configs, di, wg, regVars, lock, call, watcherVars, quitVars, taskVars,
                 conns, nacc, handlerVars>>

\* <-c: an interrupt arrives
Main_Signal ==
  /\ mainpc = "waitSignal"
  /\ mainpc' = "sendStopWatcher"
  /\ UNCHANGED <<configs, di, wg, regVars, lock, call, watcherVars, quitVars, taskVars,
                 serverVars, handlerVars>>

\* quitWatcher.sendStop(): the channel has room for it
Main_SendStopWatcher ==
  /\ mainpc = "sendStopWatcher"
  /\ quitWatcher.stop = 0
  /\ quitWatcher' = [quitWatcher EXCEPT !.stop = 1]
  /\ mainpc' = "sendStopServer"
  /\ UNCHANGED <<configs, di, wg, regVars, lock, call, watcherVars, quitServer, taskVars,
                 serverVars, handlerVars>>

\* quitServer.sendStop()
Main_SendStopServer ==
  /\ mainpc = "sendStopServer"
  /\ quitServer.stop = 0
  /\ quitServer' = [quitServer EXCEPT !.stop = 1]
  /\ mainpc' = "waitWatcher"
  /\ UNCHANGED <<configs, di, wg, regVars, lock, call, watcherVars, quitWatcher, taskVars,
                 serverVars, handlerVars>>

\* <-quitWatcher.stopped
Main_WaitWatcher ==
  /\ mainpc = "waitWatcher"
  /\ quitWatcher.stopped = 1
  /\ quitWatcher' = [quitWatcher EXCEPT !.stopped = 0]
  /\ mainpc' = "waitServer"
  /\ UNCHANGED <<configs, di, wg, regVars, lock, call, watcherVars, quitServer, taskVars,
                 serverVars, handlerVars>>

\* <-quitServer.stopped
Main_WaitServer ==
  /\ mainpc = "waitServer"
  /\ quitServer.stopped = 1
  /\ quitServer' = [quitServer EXCEPT !.stopped = 0]
  /\ mainpc' = "shutdownLock"
  /\ UNCHANGED <<configs, di, wg, regVars, lock, call, watcherVars, quitWatcher, taskVars,
                 serverVars, handlerVars>>

\* a counter that is one short of the number of tasks
WaitGroupSizeShort(seq) == Len(seq) - 1

\* the number of stop tasks the coordinator waits for
WaitGroupSize(seq) == Len(seq)

\* services.Lock(); wg.Add(len(services.list)); ii := len(services.list) - 1
Main_ShutdownLock ==
  /\ mainpc = "shutdownLock"
  /\ lock = "none"
  /\ lock' = "main"
  /\ wg' = WaitGroupSize(list)
  /\ di' = Len(list)
  /\ mainpc' = "dispatch"
  /\ UNCHANGED <<configs, regVars, call, watcherVars, quitVars, taskVars, serverVars,
                 handlerVars>>

\* one iteration of the shutdown loop: go func(s) {...}(services.list[ii]); ii--
Main_Dispatch ==
  /\ mainpc = "dispatch"
  /\ di >= 1
  /\ tpc' = [tpc EXCEPT ![list[di]] = "spawned"]
  /\ di' = di - 1
  /\ UNCHANGED <<configs, mainpc, wg, regVars, lock, call, watcherVars, quitVars,
                 serverVars, handlerVars>>

\* the loop ends; wg.Wait() returns once the counter is 0; services.Unlock()
Main_Wait ==
  /\ mainpc = "dispatch"
  /\ di = 0
  /\ wg = 0
  /\ lock' = "none"
  /\ mainpc' = "done"
  /\ UNCHANGED <<configs, di, wg, regVars, call, watcherVars, quitVars, taskVars,
                 serverVars, handlerVars>>

\* ------------------------------------------------- shutdown stop goroutines
\* s.Stop() is invoked
Task_Stop(s) ==
  /\ Alive
  /\ tpc[s] = "spawned"
  /\ call' = Invoke(TaskId(s), "Stop", s)
  /\ tpc' = [tpc EXCEPT ![s] = "stopping"]
  /\ UNCHANGED <<mainVars, regVars, lock, watcherVars, quitVars, serverVars, handlerVars>>

\* s.Stop() returned, with or without an error; wg.Done()
Task_Done(s) ==
  /\ Alive
  /\ tpc[s] = "stopping"
  /\ Returned(TaskId(s))
  /\ call' = [call EXCEPT ![TaskId(s)] = NoCall]
  /\ wg' = wg - 1
  /\ tpc' = [tpc EXCEPT ![s] = "done"]
  /\ UNCHANGED <<configs, mainpc, di, regVars, lock, watcherVars, quitVars, serverVars,
                 handlerVars>>

\* ------------------------------------------------- startWatching goroutine
\* case ev := <-watcher.Event, for a file that is not ignored, and
\* services.Lock().  For a create or a modify, prio is the priority that
\* ParseConfig(name) will read from the file.  The lock is only ever held by daemonMain before this
\* goroutine exists and after it has exited, and by a handler for the length
\* of one step, so the goroutine never waits between the two.
Watcher_Recv ==
  /\ Alive
  /\ wpc = "select"
  /\ watching
  /\ Work < MaxWork
  /\ lock = "none"
  /\ \E k \in Kinds, f \in Files, p \in Prios :
       /\ k = "create" => nsvc < MaxSvc
       /\ wev' = [kind |-> k, file |-> f,
                  prio |-> IF k \in {"create", "modify"} THEN p ELSE 0]
  /\ nev' = nev + 1
  /\ lock' = "watcher"
  /\ wpc' = "handle"
  /\ UNCHANGED <<mainVars, regVars, call, watching, quitVars, taskVars, serverVars, handlerVars>>

\* services.Unlock() and back to the select
WatcherUnlock ==
  /\ lock' = "none"
  /\ wpc' = "select"
  /\ wev' = NoEv

\* ParseConfig(name)
ParseConfig(ev) == [file |-> ev.file, prio |-> ev.prio]

\* a comparison that never finds two configurations equal
DeepEqualNever(a, b) == FALSE

\* reflect.DeepEqual(v.Config, cfg)
DeepEqual(a, b) == a = b

\* case ev.IsCreate(): ParseConfig, newService, append, Sort, then s.Start()
Watcher_Create ==
  /\ Alive
  /\ wpc = "handle"
  /\ wev.kind = "create"
  /\ LET s == nsvc + 1
         sv == [svc EXCEPT ![s] = newService(ParseConfig(wev))]
     IN /\ svc' = sv
        /\ nsvc' = s
        /\ list' = Sort(sv, Append(list, s))
        /\ call' = Invoke(WatcherId, "Start", s)
  /\ wpc' = "createStart"
  /\ UNCHANGED <<mainVars, lock, watching, wev, nev, quitVars, taskVars, serverVars, handlerVars>>

\* s.Start() returned
Watcher_CreateDone ==
  /\ Alive
  /\ wpc = "createStart"
  /\ Returned(WatcherId)
  /\ call' = [call EXCEPT ![WatcherId] = NoCall]
  /\ WatcherUnlock
  /\ UNCHANGED <<mainVars, regVars, watching, nev, quitVars, taskVars, serverVars, handlerVars>>

\* case ev.IsDelete() || ev.IsRename(): the first service of that file
Watcher_Delete ==
  /\ Alive
  /\ wpc = "handle"
  /\ wev.kind \in {"delete", "rename"}
  /\ LET ii == FindFile(svc, list, wev.file) IN
       IF ii = 0
       THEN /\ WatcherUnlock
            /\ UNCHANGED <<regVars, call>>
       ELSE IF svc[list[ii]].state = "Started"
       THEN /\ call' = Invoke(WatcherId, "Stop", list[ii])
            /\ wpc' = "deleteStop"
            /\ UNCHANGED <<regVars, lock, wev>>
       ELSE /\ list' = RemoveAt(list, ii)
            /\ WatcherUnlock
            /\ UNCHANGED <<svc, nsvc, call>>
  /\ UNCHANGED <<mainVars, watching, nev, quitVars, taskVars, serverVars, handlerVars>>

\* s.Stop() returned: splice the service out
Watcher_DeleteDone ==
  /\ Alive
  /\ wpc = "deleteStop"
  /\ Returned(WatcherId)
  /\ list' = RemoveAt(list, FindFile(svc, list, wev.file))
  /\ call' = [call EXCEPT ![WatcherId] = NoCall]
  /\ WatcherUnlock
  /\ UNCHANGED <<mainVars, svc, nsvc, watching, nev, quitVars, taskVars, serverVars, handlerVars>>

\* v.Config = cfg; servicesByPriority(services.list).Sort()
Reconfigure(sv, seq, v, cfg) ==
  LET nv == [sv EXCEPT ![v].cfg = cfg]
  IN [svc |-> nv, list |-> Sort(nv, seq)]

\* case ev.IsModify(): the first service of that file; an equal Config is
\* skipped; a Started service is stopped first
Watcher_Modify ==
  /\ Alive
  /\ wpc = "handle"
  /\ wev.kind = "modify"
  /\ LET ii == FindFile(svc, list, wev.file) IN
       IF ii = 0
       THEN /\ WatcherUnlock
            /\ UNCHANGED <<regVars, call>>
       ELSE LET v == list[ii]
                cfg == ParseConfig(wev)
            IN IF DeepEqual(svc[v].cfg, cfg)
               THEN /\ WatcherUnlock
                    /\ UNCHANGED <<regVars, call>>
               ELSE IF svc[v].state = "Started"
               THEN /\ call' = Invoke(WatcherId, "Stop", v)
                    /\ wpc' = "modifyStop"
                    /\ UNCHANGED <<regVars, lock, wev>>
               ELSE /\ svc' = Reconfigure(svc, list, v, cfg).svc
                    /\ list' = Reconfigure(svc, list, v, cfg).list
                    /\ WatcherUnlock
                    /\ UNCHANGED <<nsvc, call>>
  /\ UNCHANGED <<mainVars, watching, nev, quitVars, taskVars, serverVars, handlerVars>>

\* a reconfiguration that starts the service whatever v.Stop() returned
ModifyStartAlways(res) == TRUE

\* start = v.Stop() == nil
ModifyStart(res) == res = "ok"

\* v.Stop() returned: start = (err == nil); replace Config, Sort, and
\* v.Start() if start
Watcher_ModifyStopped ==
  /\ Alive
  /\ wpc = "modifyStop"
  /\ Returned(WatcherId)
  /\ LET v == call[WatcherId].svc
         cfg == ParseConfig(wev)
     IN /\ svc' = Reconfigure(svc, list, v, cfg).svc
        /\ list' = Reconfigure(svc, list, v, cfg).list
        /\ IF ModifyStart(call[WatcherId].res)
           THEN /\ call' = Invoke(WatcherId, "Start", v)
                /\ wpc' = "modifyStart"
                /\ UNCHANGED <<lock, wev>>
           ELSE /\ call' = [call EXCEPT ![WatcherId] = NoCall]
                /\ WatcherUnlock
  /\ UNCHANGED <<mainVars, nsvc, watching, nev, quitVars, taskVars, serverVars, handlerVars>>

\* v.Start() returned
Watcher_ModifyDone ==
  /\ Alive
  /\ wpc = "modifyStart"
  /\ Returned(WatcherId)
  /\ call' = [call EXCEPT ![WatcherId] = NoCall]
  /\ WatcherUnlock
  /\ UNCHANGED <<mainVars, regVars, watching, nev, quitVars, taskVars, serverVars, handlerVars>>

\* default: the event is logged as unhandled
Watcher_Unhandled ==
  /\ Alive
  /\ wpc = "handle"
  /\ wev.kind = "attrib"
  /\ WatcherUnlock
  /\ UNCHANGED <<mainVars, regVars, call, watching, nev, quitVars, taskVars, serverVars, handlerVars>>

\* a stop that is observed wherever the watcher goroutine is
WatcherPreempted(pc) ==
  pc \in {"select", "handle", "createStart", "deleteStop", "modifyStop", "modifyStart"}

\* the watcher goroutine is at its select, the only place where it receives
WatcherSelects(pc) == pc = "select"

\* case <-q.stop: watcher.Close(); q.sendStopped(); break End
Watcher_Stop ==
  /\ Alive
  /\ WatcherSelects(wpc)
  /\ quitWatcher.stop = 1
  /\ quitWatcher' = [stop |-> 0, stopped |-> 1]
  /\ wpc' = "exited"
  /\ watching' = FALSE
  /\ UNCHANGED <<mainVars, regVars, lock, call, wev, nev, quitServer, taskVars, serverVars, handlerVars>>

\* --------------------------------------------------- startServer goroutines
\* the accept goroutine: conn, err := server.Accept(); an error is logged;
\* conns <- conn, which waits while the channel is full
Server_Accept ==
  /\ Alive
  /\ spc \in {"loop", "exited"}
  /\ nacc < MaxConn
  /\ Work < MaxWork
  /\ Len(conns) < ConnsCap
  /\ \E ok \in BOOLEAN : conns' = Append(conns, [id |-> nacc + 1, ok |-> ok])
  /\ nacc' = nacc + 1
  /\ UNCHANGED <<mainVars, regVars, lock, call, watcherVars, quitVars, taskVars, spc,
                 handlerVars>>

\* case conn := <-conns: go serveConn(conn)
Server_Serve ==
  /\ Alive
  /\ spc = "loop"
  /\ conns # <<>>
  /\ hpc' = [hpc EXCEPT ![Head(conns).id] = IF Head(conns).ok THEN "decode" ELSE "nilconn"]
  /\ conns' = Tail(conns)
  /\ UNCHANGED <<mainVars, regVars, lock, call, watcherVars, quitVars, taskVars, spc, nacc,
                 hbuf, hcmd, hname, hst, resp>>

\* case <-q.stop: os.Remove(SocketPath); q.sendStopped(); return
Server_Stop ==
  /\ Alive
  /\ spc = "loop"
  /\ quitServer.stop = 1
  /\ quitServer' = [stop |-> 0, stopped |-> 1]
  /\ spc' = "exited"
  /\ UNCHANGED <<mainVars, regVars, lock, call, watcherVars, quitWatcher, taskVars, conns,
                 nacc, handlerVars>>

\* ---------------------------------------------------------------- serveConn
NamedCmds == {"start", "stop", "restart", "log"}

\* what a client may send as args[0]
Tokens == NamedCmds \cup {"list", "LIST", "bogus"}

\* strings.ToLower
ToLower(tok) == IF tok = "LIST" THEN "list" ELSE tok

\* encodeResponse(conn, ..., msg)
Respond(h, msg) == [resp EXCEPT ![h] = Append(resp[h], msg)]

\* a lookup that takes the first service of the list whatever its name
LookupFirst(sv, seq, name) == IF seq = <<>> THEN 0 ELSE seq[1]

\* the service a named command finds: the first of the list whose Name() is
\* args[1], 0 for nil.  Name() is the name of the configuration file.
Lookup(sv, seq, name) ==
  LET ii == FindFile(sv, seq, name) IN IF ii = 0 THEN 0 ELSE seq[ii]

\* serveConn(nil): the conn of a failed Accept is a nil interface, and the
\* first method call on it, conn.Close of the defer statement, panics; no
\* goroutine recovers, so the process dies
Handler_NilConn(h) ==
  /\ Alive
  /\ hpc[h] = "nilconn"
  /\ mainpc' = "panic"
  /\ UNCHANGED <<configs, di, wg, regVars, lock, call, watcherVars, quitVars, taskVars,
                 serverVars, handlerVars>>

\* decodeArgs fails: serveConn returns the error, nothing is written
Handler_DecodeError(h) ==
  /\ Alive
  /\ hpc[h] = "decode"
  /\ hpc' = [hpc EXCEPT ![h] = "failed"]
  /\ UNCHANGED <<mainVars, regVars, lock, call, watcherVars, quitVars, taskVars, serverVars,
                 hbuf, hcmd, hname, hst, resp>>

\* decodeArgs returns no argument at all: only the end marker follows
Handler_DecodeEmpty(h) ==
  /\ Alive
  /\ hpc[h] = "decode"
  /\ hpc' = [hpc EXCEPT ![h] = "end"]
  /\ UNCHANGED <<mainVars, regVars, lock, call, watcherVars, quitVars, taskVars, serverVars,
                 hbuf, hcmd, hname, hst, resp>>

\* a named command with a wrong number of arguments: cmd = ""
Handler_DecodeBadArgs(h) ==
  /\ Alive
  /\ hpc[h] = "decode"
  /\ resp' = Respond(h, "InvalidArguments")
  /\ hpc' = [hpc EXCEPT ![h] = "end"]
  /\ UNCHANGED <<mainVars, regVars, lock, call, watcherVars, quitVars, taskVars, serverVars,
                 hbuf, hcmd, hname, hst>>

\* a command is decoded: cmd := strings.ToLower(args[0])
Handler_Decode(h) ==
  /\ Alive
  /\ hpc[h] = "decode"
  /\ \E tok \in Tokens, name \in Files :
       LET cmd == ToLower(tok) IN
       /\ hcmd' = [hcmd EXCEPT ![h] = IF cmd \in NamedCmds THEN cmd ELSE ""]
       /\ hname' = [hname EXCEPT ![h] = IF cmd \in NamedCmds THEN name ELSE 0]
       /\ hpc' = [hpc EXCEPT ![h] = IF cmd \in NamedCmds THEN "lookup"
                                    ELSE IF cmd = "list" THEN "list" ELSE "unknown"]
  /\ UNCHANGED <<mainVars, regVars, lock, call, watcherVars, quitVars, taskVars, serverVars,
                 hbuf, hst, resp>>

\* services.Lock(); the lookup loop; services.Unlock(); st == nil ends the
\* command, else the switch goes to the case of cmd.  args and cmd are not
\* read again.
Handler_Lookup(h) ==
  /\ Alive
  /\ hpc[h] = "lookup"
  /\ lock = "none"
  /\ LET st == Lookup(svc, list, hname[h]) IN
       IF st = 0
       THEN /\ resp' = Respond(h, "NoSuchService")
            /\ hpc' = [hpc EXCEPT ![h] = "end"]
            /\ UNCHANGED hst
       ELSE /\ hst' = [hst EXCEPT ![h] = st]
            /\ hpc' = [hpc EXCEPT ![h] = hcmd[h]]
            /\ UNCHANGED resp
  /\ hcmd' = [hcmd EXCEPT ![h] = ""]
  /\ hname' = [hname EXCEPT ![h] = 0]
  /\ UNCHANGED <<mainVars, regVars, lock, call, watcherVars, quitVars, taskVars, serverVars,
                 hbuf>>

\* case "start": a Started service is refused, else startService calls s.Start()
Handler_Start(h) ==
  /\ Alive
  /\ hpc[h] = "start"
  /\ IF svc[hst[h]].state = "Started"
     THEN /\ resp' = Respond(h, "AlreadyRunning")
          /\ hpc' = [hpc EXCEPT ![h] = "end"]
          /\ UNCHANGED call
     ELSE /\ resp' = Respond(h, "ok")
          /\ call' = Invoke(HandlerId(h), "Start", hst[h])
          /\ hpc' = [hpc EXCEPT ![h] = "starting"]
  /\ UNCHANGED <<mainVars, regVars, lock, watcherVars, quitVars, taskVars, serverVars,
                 hbuf, hcmd, hname, hst>>

\* startService: s.Start() returned; its outcome is reported
Handler_Started(h) ==
  /\ Alive
  /\ hpc[h] \in {"starting", "restarting"}
  /\ Returned(HandlerId(h))
  /\ resp' = Respond(h, IF call[HandlerId(h)].res = "ok" THEN "ok" ELSE "StartFailure")
  /\ call' = [call EXCEPT ![HandlerId(h)] = NoCall]
  /\ hpc' = [hpc EXCEPT ![h] = "end"]
  /\ UNCHANGED <<mainVars, regVars, lock, watcherVars, quitVars, taskVars, serverVars,
                 hbuf, hcmd, hname, hst>>

\* case "stop": only a Started service is stopped, with stopService
Handler_Stop(h) ==
  /\ Alive
  /\ hpc[h] = "stop"
  /\ IF svc[hst[h]].state # "Started"
     THEN /\ resp' = Respond(h, "NotRunning")
          /\ hpc' = [hpc EXCEPT ![h] = "end"]
          /\ UNCHANGED call
     ELSE /\ resp' = Respond(h, "ok")
          /\ call' = Invoke(HandlerId(h), "Stop", hst[h])
          /\ hpc' = [hpc EXCEPT ![h] = "stopping"]
  /\ UNCHANGED <<mainVars, regVars, lock, watcherVars, quitVars, taskVars, serverVars,
                 hbuf, hcmd, hname, hst>>

\* stopService: s.Stop() returned; its outcome is reported
Handler_Stopped(h) ==
  /\ Alive
  /\ hpc[h] = "stopping"
  /\ Returned(HandlerId(h))
  /\ resp' = Respond(h, IF call[HandlerId(h)].res = "ok" THEN "ok" ELSE "StopFailure")
  /\ call' = [call EXCEPT ![HandlerId(h)] = NoCall]
  /\ hpc' = [hpc EXCEPT ![h] = "end"]
  /\ UNCHANGED <<mainVars, regVars, lock, watcherVars, quitVars, taskVars, serverVars,
                 hbuf, hcmd, hname, hst>>

\* case "restart": a Started service is stopped with stopService; any other
\* leaves stopped false and nothing is done
Handler_Restart(h) ==
  /\ Alive
  /\ hpc[h] = "restart"
  /\ IF svc[hst[h]].state = "Started"
     THEN /\ resp' = Respond(h, "ok")
          /\ call' = Invoke(HandlerId(h), "Stop", hst[h])
          /\ hpc' = [hpc EXCEPT ![h] = "restartStopping"]
     ELSE /\ hpc' = [hpc EXCEPT ![h] = "end"]
          /\ UNCHANGED <<resp, call>>
  /\ UNCHANGED <<mainVars, regVars, lock, watcherVars, quitVars, taskVars, serverVars,
                 hbuf, hcmd, hname, hst>>

\* a restart that starts the service whatever stopService returned
RestartProceedsAlways(res) == TRUE

\* whether restart goes on to startService, from what stopService returned
RestartProceeds(res) == res = "ok"

\* restart: stopService returned stopped; if stopped, startService
Handler_RestartStopped(h) ==
  /\ Alive
  /\ hpc[h] = "restartStopping"
  /\ Returned(HandlerId(h))
  /\ LET res == call[HandlerId(h)].res
         r1 == Append(resp[h], IF res = "ok" THEN "ok" ELSE "StopFailure")
     IN IF RestartProceeds(res)
        THEN /\ resp' = [resp EXCEPT ![h] = Append(r1, "ok")]
             /\ call' = Invoke(HandlerId(h), "Start", hst[h])
             /\ hpc' = [hpc EXCEPT ![h] = "restarting"]
        ELSE /\ resp' = [resp EXCEPT ![h] = r1]
             /\ call' = [call EXCEPT ![HandlerId(h)] = NoCall]
             /\ hpc' = [hpc EXCEPT ![h] = "end"]
  /\ UNCHANGED <<mainVars, regVars, lock, watcherVars, quitVars, taskVars, serverVars,
                 hbuf, hcmd, hname, hst>>

\* Service.Err, the error of the last failure: it is there only while the
\* service is Failed
Err(sv, s) == IF sv[s].state = "Failed" THEN "boom" ELSE "nil"

\* the states that the switch of the list command renders
Rendered == {"Stopped", "Stopping", "Starting", "Started", "Failed"}

\* the status column of a row
Status(st) ==
  CASE st = "Stopped" -> "STOPPED"
    [] st = "Stopping" -> "STOPPING"
    [] st = "Starting" -> "STARTING"
    [] st = "Started" -> "RUNNING"
    [] st = "Failed" -> "FAILED"

\* fmt.Fprintf(w, ...): one row of the table
Row(s, status, err) == [svc |-> s, status |-> status, err |-> err]

\* case "list": the header is written and services.Lock() taken
Handler_List(h) ==
  /\ Alive
  /\ hpc[h] = "list"
  /\ lock = "none"
  /\ lock' = "handler"
  /\ hpc' = [hpc EXCEPT ![h] = "listRow"]
  /\ UNCHANGED <<mainVars, regVars, call, watcherVars, quitVars, taskVars, serverVars,
                 hbuf, hcmd, hname, hst, resp>>

\* list: one iteration of the loop over services.list: switch v.State.  A
\* state that is not Failed is written at once; for a Failed one v.Err is
\* still to be read; any other value panics
Handler_ListRow(h) ==
  /\ Alive
  /\ hpc[h] = "listRow"
  /\ Len(hbuf[h]) < Len(list)
  /\ LET v == list[Len(hbuf[h]) + 1]
         st == svc[v].state
     IN IF st \notin Rendered
        THEN /\ mainpc' = "panic"
             /\ UNCHANGED <<hpc, hbuf>>
        ELSE IF st = "Failed"
        THEN /\ hpc' = [hpc EXCEPT ![h] = "listErr"]
             /\ UNCHANGED <<mainpc, hbuf>>
        ELSE /\ hbuf' = [hbuf EXCEPT ![h] = Append(@, Row(v, Status(st), "-"))]
             /\ UNCHANGED <<mainpc, hpc>>
  /\ UNCHANGED <<configs, di, wg, regVars, lock, call, watcherVars, quitVars, taskVars,
                 serverVars, hcmd, hname, hst, resp>>

\* list: case StateFailed: fmt.Fprintf(w, "FAILED - %s", v.Err) reads v.Err
Handler_ListErr(h) ==
  /\ Alive
  /\ hpc[h] = "listErr"
  /\ LET v == list[Len(hbuf[h]) + 1]
     IN hbuf' = [hbuf EXCEPT ![h] = Append(@, Row(v, Status("Failed"), Err(svc, v)))]
  /\ hpc' = [hpc EXCEPT ![h] = "listRow"]
  /\ UNCHANGED <<mainVars, regVars, lock, call, watcherVars, quitVars, taskVars, serverVars,
                 hcmd, hname, hst, resp>>

\* list: the loop is over: services.Unlock(); w.Flush(); the table is sent
Handler_ListSend(h) ==
  /\ Alive
  /\ hpc[h] = "listRow"
  /\ Len(hbuf[h]) = Len(list)
  /\ lock' = "none"
  /\ resp' = Respond(h, "ok")
  /\ hbuf' = [hbuf EXCEPT ![h] = <<>>]
  /\ hpc' = [hpc EXCEPT ![h] = "end"]
  /\ UNCHANGED <<mainVars, regVars, call, watcherVars, quitVars, taskVars, serverVars,
                 hcmd, hname, hst>>

\* a return in the place of the break: serveConn ends without the end marker
LogReturn == "logged"

\* the break of a refused log: it leaves the switch, and the statement that
\* follows the switch writes the end marker
LogBreak == "end"

\* case "log": st.State != StateStarted is refused
Handler_Log(h) ==
  /\ Alive
  /\ hpc[h] = "log"
  /\ IF svc[hst[h]].state # "Started"
     THEN /\ resp' = Respond(h, "NotRunning")
          /\ hpc' = [hpc EXCEPT ![h] = LogBreak]
     ELSE /\ hpc' = [hpc EXCEPT ![h] = "logMonitor"]
          /\ UNCHANGED resp
  /\ UNCHANGED <<mainVars, regVars, lock, call, watcherVars, quitVars, taskVars, serverVars,
                 hbuf, hcmd, hname, hst>>

\* log: st.logger.monitor != nil is refused
Handler_LogMonitor(h) ==
  /\ Alive
  /\ hpc[h] = "logMonitor"
  /\ IF svc[hst[h]].mon # 0
     THEN /\ resp' = Respond(h, "AlreadyMonitored")
          /\ hpc' = [hpc EXCEPT ![h] = LogBreak]
     ELSE /\ hpc' = [hpc EXCEPT ![h] = "logInstall"]
          /\ UNCHANGED resp
  /\ UNCHANGED <<mainVars, regVars, lock, call, watcherVars, quitVars, taskVars, serverVars,
                 hbuf, hcmd, hname, hst>>

\* log: st.logger.monitor = func(...) {...}; the handler then waits on ch
Handler_LogInstall(h) ==
  /\ Alive
  /\ hpc[h] = "logInstall"
  /\ svc' = [svc EXCEPT ![hst[h]].mon = h]
  /\ hpc' = [hpc EXCEPT ![h] = "streaming"]
  /\ UNCHANGED <<mainVars, nsvc, list, lock, call, watcherVars, quitVars, taskVars,
                 serverVars, hbuf, hcmd, hname, hst, resp>>

\* log: the client sent a byte or closed; st.logger.monitor = nil; return nil
Handler_LogEnd(h) ==
  /\ Alive
  /\ hpc[h] = "streaming"
  /\ svc' = [svc EXCEPT ![hst[h]].mon = 0]
  /\ hpc' = [hpc EXCEPT ![h] = "logged"]
  /\ UNCHANGED <<mainVars, nsvc, list, lock, call, watcherVars, quitVars, taskVars,
                 serverVars, hbuf, hcmd, hname, hst, resp>>

\* default: the command is unknown
Handler_Unknown(h) ==
  /\ Alive
  /\ hpc[h] = "unknown"
  /\ resp' = Respond(h, "UnknownCommand")
  /\ hpc' = [hpc EXCEPT ![h] = "end"]
  /\ UNCHANGED <<mainVars, regVars, lock, call, watcherVars, quitVars, taskVars, serverVars,
                 hbuf, hcmd, hname, hst>>

\* return encodeResponse(conn, respEnd, "")
Handler_End(h) ==
  /\ Alive
  /\ hpc[h] = "end"
  /\ resp' = Respond(h, "end")
  /\ hpc' = [hpc EXCEPT ![h] = "closing"]
  /\ UNCHANGED <<mainVars, regVars, lock, call, watcherVars, quitVars, taskVars, serverVars,
                 hbuf, hcmd, hname, hst>>

\* the deferred conn.Close(): the goroutine ends, its locals and the
\* connection with what was written to it are gone
Handler_Close(h) ==
  /\ Alive
  /\ hpc[h] \in {"closing", "failed", "logged"}
  /\ hpc' = [hpc EXCEPT ![h] = "done"]
  /\ hst' = [hst EXCEPT ![h] = 0]
  /\ resp' = [resp EXCEPT ![h] = <<>>]
  /\ UNCHANGED <<mainVars, regVars, lock, call, watcherVars, quitVars, taskVars, serverVars,
                 hbuf, hcmd, hname>>

Handler(h) ==
  \/ Handler_NilConn(h)
  \/ Handler_DecodeError(h)
  \/ Handler_DecodeEmpty(h)
  \/ Handler_DecodeBadArgs(h)
  \/ Handler_Decode(h)
  \/ Handler_Lookup(h)
  \/ Handler_Start(h)
  \/ Handler_Started(h)
  \/ Handler_Stop(h)
  \/ Handler_Stopped(h)
  \/ Handler_Restart(h)
  \/ Handler_RestartStopped(h)
  \/ Handler_List(h)
  \/ Handler_ListRow(h)
  \/ Handler_ListErr(h)
  \/ Handler_ListSend(h)
  \/ Handler_Log(h)
  \/ Handler_LogMonitor(h)
  \/ Handler_LogInstall(h)
  \/ Handler_LogEnd(h)
  \/ Handler_Unknown(h)
  \/ Handler_End(h)
  \/ Handler_Close(h)

\* the steps a handler takes by itself, once the client has sent its
\* command and until it waits for the end of a log stream
HandlerRuns(h) ==
  \/ Handler_NilConn(h)
  \/ Handler_Lookup(h)
  \/ Handler_Start(h)
  \/ Handler_Started(h)
  \/ Handler_Stop(h)
  \/ Handler_Stopped(h)
  \/ Handler_Restart(h)
  \/ Handler_RestartStopped(h)
  \/ Handler_List(h)
  \/ Handler_ListRow(h)
  \/ Handler_ListErr(h)
  \/ Handler_ListSend(h)
  \/ Handler_Log(h)
  \/ Handler_LogMonitor(h)
  \/ Handler_LogInstall(h)
  \/ Handler_Unknown(h)
  \/ Handler_End(h)
  \/ Handler_Close(h)

Server ==
  \/ Server_Accept
  \/ Server_Serve
  \/ Server_Stop

Task(s) == Task_Stop(s) \/ Task_Done(s)

Watcher ==
  \/ Watcher_Recv
  \/ Watcher_Create
  \/ Watcher_CreateDone
  \/ Watcher_Delete
  \/ Watcher_DeleteDone
  \/ Watcher_Modify
  \/ Watcher_ModifyStopped
  \/ Watcher_ModifyDone
  \/ Watcher_Unhandled
  \/ Watcher_Stop

Service == \E p \in Callers : Service_Enter(p) \/ Service_Finish(p)

Main ==
  \/ Main_BootLock
  \/ Main_BootStart
  \/ Main_BootSort
  \/ Main_StartWatching
  \/ Main_StartServer
  \/ Main_Signal
  \/ Main_SendStopWatcher
  \/ Main_SendStopServer
  \/ Main_WaitWatcher
  \/ Main_WaitServer
  \/ Main_ShutdownLock
  \/ Main_Dispatch
  \/ Main_Wait

Next ==
  \/ Main
  \/ Watcher
  \/ Server
  \/ \E h \in ConnIds : Handler(h)
  \/ \E s \in SvcIds : Task(s)
  \/ Service

Spec == Init /\ [][Next]_vars

\* Go schedules every runnable goroutine, and a select picks at random among
\* its ready cases, so a case that is ready again and again is taken.  No
\* fairness is assumed of the environment: events, connections, the signal
\* and the end of a log stream.
Fairness ==
  /\ WF_vars(Main_BootLock \/ Main_BootStart \/ Main_BootSort \/ Main_StartWatching
             \/ Main_StartServer \/ Main_SendStopWatcher \/ Main_SendStopServer
             \/ Main_WaitWatcher \/ Main_WaitServer \/ Main_ShutdownLock
             \/ Main_Dispatch \/ Main_Wait)
  /\ WF_vars(Watcher_Create \/ Watcher_CreateDone \/ Watcher_Delete \/ Watcher_DeleteDone
             \/ Watcher_Modify \/ Watcher_ModifyStopped \/ Watcher_ModifyDone
             \/ Watcher_Unhandled)
  /\ SF_vars(Watcher_Stop)
  /\ SF_vars(Server_Stop)
  /\ SF_vars(Server_Serve)
  /\ WF_vars(Service)
  /\ \A s \in SvcIds : WF_vars(Task(s))
  /\ \A h \in ConnIds : SF_vars(HandlerRuns(h))

FairSpec == Spec /\ Fairness

\* ================================================================== claims
Elems(seq) == {seq[i] : i \in DOMAIN seq}

Pos(seq, a) == CHOOSE i \in DOMAIN seq : seq[i] = a

Before(seq, a, b) == Pos(seq, a) < Pos(seq, b)

IsSorted(sv, seq) ==
  \A i, j \in DOMAIN seq : i < j => Priority(sv, seq[i]) <= Priority(sv, seq[j])

\* a step keeps the relative order of the services that have equal priority
\* after it, and puts a new service behind the old ones of its priority
StableStep ==
  /\ \A a, b \in Elems(list) \cap Elems(list') :
       (a # b /\ Priority(svc', a) = Priority(svc', b))
         => (Before(list, a, b) <=> Before(list', a, b))
  /\ \A n \in Elems(list') \ Elems(list) : \A a \in Elems(list) \cap Elems(list') :
       Priority(svc', a) = Priority(svc', n) => Before(list', a, n)

\* C1: whenever the registry lock is not held, services.list is sorted
\* ascending by Config.Priority, and every step keeps the relative order of
\* the services of equal priority, a new service going behind them.
C1_SortedStable ==
  /\ [](lock = "none" => IsSorted(svc, list))
  /\ [][StableStep]_vars

\* C1 witness: after a watcher event the unlocked list holds three services,
\* two of equal priority, and the sort has moved a later service to the front
C1_Witness ==
  /\ lock = "none"
  /\ nev > 0
  /\ Len(list) = 3
  /\ \E i, j \in DOMAIN list : i < j /\ Priority(svc, list[i]) = Priority(svc, list[j])
  /\ \E i, j \in DOMAIN list : i < j /\ list[i] > list[j]

\* the stop task of s has invoked s.Stop()
StopInvoked(s) == tpc[s] \in {"stopping", "done"}

\* C2: on shutdown, for two services a before b in the registry, Stop() of
\* b is invoked before Stop() of a.
C2_StopsDescending ==
  mainpc \in {"dispatch", "done"} =>
    \A i, j \in DOMAIN list : (i < j /\ StopInvoked(list[i])) => StopInvoked(list[j])

\* C3: at startup the services loaded from the configuration files are
\* started in ascending order of priority: in the boot loop the list holds
\* the services in the order of their Start() calls.
C3_BootStartsAscending ==
  mainpc = "bootLoop" =>
    \A i, j \in DOMAIN list :
      (i < j /\ Priority(svc, list[i]) # Priority(svc, list[j]))
        => Priority(svc, list[i]) < Priority(svc, list[j])

\* the goroutines with a Start() or Stop() of s in flight
InFlight(s) == {p \in Callers : call[p].svc = s /\ call[p].phase \in {"called", "running"}}

\* C4: for every service at most one Start() or Stop() invocation is in
\* flight at any time, across all callers.
C4_OneInFlight == \A s \in SvcIds : Cardinality(InFlight(s)) <= 1

\* the step is taken by the goroutine that holds services.Mutex: the watcher,
\* or daemonMain with the stop tasks it waits for
StepOfLockHolder ==
  \/ /\ lock = "watcher"
     /\ (wpc' # wpc \/ call'[WatcherId] # call[WatcherId])
  \/ /\ lock = "main"
     /\ \/ mainpc' # mainpc
        \/ nsvc' # nsvc
        \/ \E s \in SvcIds : call'[TaskId(s)] # call[TaskId(s)]

\* C5: every change of a service's mutable fields or of the registry list is
\* made by a goroutine that holds the registry mutex for the whole
\* read-then-write.
C5_MutationsUnderLock ==
  [][(svc' # svc \/ list' # list) => StepOfLockHolder]_vars

\* C6: once the termination signal is received the daemon eventually
\* completes the shutdown and returns from daemonMain, also when
\* startWatching or startServer returned an error.
C6_ShutdownCompletes == (mainpc = "sendStopWatcher") ~> (mainpc = "done")

\* daemonMain has received both stopped acknowledgments
Acked == mainpc \in {"shutdownLock", "dispatch", "done"}

\* the step is one of the watcher or of a connection handler
StepOfWatcherOrHandler ==
  \/ wpc' # wpc
  \/ call'[WatcherId] # call[WatcherId]
  \/ \E h \in ConnIds : hpc'[h] # hpc[h] \/ call'[HandlerId(h)] # call[HandlerId(h)]

\* C7: once both stopped acknowledgments are received, no step of the
\* watcher or of a connection handler changes the registry list or a service.
C7_QuietAfterAcks ==
  [][(Acked /\ StepOfWatcherOrHandler) => (svc' = svc /\ list' = list)]_vars

\* C8: daemonMain returns only after a stop task was dispatched for every
\* service of the registry and each task's Stop() has returned.
C8_ReturnsAfterAllStops ==
  mainpc = "done" =>
    /\ \A s \in Elems(list) : tpc[s] = "done"
    /\ \A s \in SvcIds : tpc[s] \in {"none", "done"} /\ call[TaskId(s)] = NoCall

\* C8 witness: daemonMain has returned with two services in the registry
C8_Witness == mainpc = "done" /\ Len(list) >= 2

\* C9: restart invokes Start() only after a Stop() it issued returned
\* success (the response stream then reads stopping, stopped, starting); a
\* restart that ends without it changes no service and invokes nothing.
C9_RestartStartsOnlyAfterStop ==
  /\ [](\A h \in ConnIds : hpc[h] = "restarting" => resp[h] = <<"ok", "ok", "ok">>)
  /\ [][\A h \in ConnIds :
          (hpc[h] \in {"restart", "restartStopping"} /\ hpc'[h] = "end")
            => (svc' = svc /\ list' = list /\ call'[HandlerId(h)] = NoCall)]_vars

\* C9 witness: the Stop() of a restart has failed and the command is ending
C9_Witness == \E h \in ConnIds : hpc[h] = "end" /\ resp[h] = <<"ok", "StopFailure">>

\* the watcher is about to handle a modify event whose configuration equals
\* that of the service it matches
EqualModify ==
  /\ wpc = "handle"
  /\ wev.kind = "modify"
  /\ FindFile(svc, list, wev.file) # 0
  /\ svc[list[FindFile(svc, list, wev.file)]].cfg = [file |-> wev.file, prio |-> wev.prio]

\* C10: a modify event whose configuration equals the matching service's
\* is a no-op: the watcher's step invokes no Stop() or Start() and leaves
\* every service and the registry list as they were.
C10_EqualModifyNoOp ==
  [][(EqualModify /\ wpc' # wpc)
       => (svc' = svc /\ list' = list /\ call' = call /\ wpc' = "select")]_vars

\* C10 witness: an equal modify event is in hand for a Started service
C10_Witness ==
  EqualModify /\ svc[list[FindFile(svc, list, wev.file)]].state = "Started"

\* C11: a service has at most one active log subscriber, and a subscription
\* stays installed until its own stream ends: for every connection that is
\* streaming a log, the monitor of its service is its own callback.
C11_SubscriberStays ==
  \A h \in ConnIds : hpc[h] = "streaming" => svc[hst[h]].mon = h

\* number of end markers in a response stream
EndCount(r) == Cardinality({i \in DOMAIN r : r[i] = "end"})

Unregistered(name) == \A i \in DOMAIN list : svc[list[i]].cfg.file # name

\* C13: a start, stop, restart or log command that names no service of the
\* registry writes NoSuchService and then the end marker, and neither step
\* invokes Start() or Stop(), installs a subscriber, or changes the
\* registry list or a service.
C13_NoSuchService ==
  /\ [][\A h \in ConnIds :
          (hpc[h] = "lookup" /\ hpc'[h] # "lookup" /\ Unregistered(hname[h]))
            => /\ resp'[h] = <<"NoSuchService">>
               /\ hpc'[h] = "end"
               /\ svc' = svc /\ list' = list /\ call' = call]_vars
  /\ [][\A h \in ConnIds :
          (hpc[h] = "end" /\ resp[h] = <<"NoSuchService">> /\ hpc'[h] # "end")
            => /\ resp'[h] = <<"NoSuchService", "end">>
               /\ hpc'[h] = "closing"
               /\ svc' = svc /\ list' = list /\ call' = call]_vars

\* C13 witness: the command named no service of a registry that is not
\* empty, and has returned
C13_Witness ==
  \E h \in ConnIds :
    /\ hpc[h] = "closing"
    /\ resp[h] = <<"NoSuchService", "end">>
    /\ list # <<>>

\* C14: the Stop() that a stop command has invoked finds its service in
\* state Started when it takes effect.
C14_StopOnlyStarted ==
  \A h \in ConnIds :
    (hpc[h] = "stopping" /\ call[HandlerId(h)].phase = "called")
      => svc[hst[h]].state = "Started"

\* the first service of the registry whose Config.File is name, 0 if none
Matched(name) ==
  LET hits == {i \in DOMAIN list : svc[list[i]].cfg.file = name}
  IN IF hits = {} THEN 0 ELSE list[CHOOSE i \in hits : \A j \in hits : i <= j]

\* the configuration that the event in hand parses to
NewCfg == [file |-> wev.file, prio |-> wev.prio]

\* the watcher is about to handle a modify event whose configuration
\* differs from that of the service it matches
DiffModify ==
  /\ wpc = "handle"
  /\ wev.kind = "modify"
  /\ Matched(wev.file) # 0
  /\ svc[Matched(wev.file)].cfg # NewCfg

\* the step replaces the configuration of v, and nothing else of any
\* service, and leaves the registry sorted with the same services
Replaced(v) ==
  /\ svc' = [svc EXCEPT ![v].cfg = NewCfg]
  /\ Elems(list') = Elems(list)
  /\ Len(list') = Len(list)
  /\ IsSorted(svc', list')

\* the goroutine has just invoked op on s
Invoked(p, op, s) ==
  call'[p] = [op |-> op, svc |-> s, phase |-> "called", res |-> "none"]

\* C16: on a modify event with a different configuration, a Started
\* service is stopped first, with nothing replaced yet; when Stop() has
\* returned the configuration is replaced and the registry sorted, and
\* Start() is invoked if and only if Stop() succeeded.  A service that is
\* not Started has its configuration replaced and the registry sorted with
\* no Stop() and no Start().
C16_Reconfigure ==
  /\ [][(DiffModify /\ wpc' # wpc) =>
         LET v == Matched(wev.file) IN
           IF svc[v].state = "Started"
           THEN /\ Invoked(WatcherId, "Stop", v)
                /\ svc' = svc /\ list' = list
                /\ wpc' = "modifyStop"
           ELSE /\ Replaced(v)
                /\ call' = call
                /\ wpc' = "select"]_vars
  /\ [][(wpc = "modifyStop" /\ wpc' # wpc) =>
         LET v == call[WatcherId].svc IN
           /\ Replaced(v)
           /\ IF call[WatcherId].res = "ok"
              THEN Invoked(WatcherId, "Start", v) /\ wpc' = "modifyStart"
              ELSE call'[WatcherId] = NoCall /\ wpc' = "select"]_vars

\* C16 witness: the Stop() of a reconfiguration succeeded and the service
\* is being started again, in a registry of two services
C16_Witness ==
  /\ wpc = "modifyStart"
  /\ call[WatcherId].op = "Start"
  /\ svc[call[WatcherId].svc].cfg = NewCfg
  /\ Len(list) = 2

\* the watcher is about to handle a delete or rename event
DeleteEvent == wpc = "handle" /\ wev.kind \in {"delete", "rename"}

\* seq with s left out, the rest in its order
Without(seq, s) == LET Keep(x) == x # s IN SelectSeq(seq, Keep)

\* C17: on a delete or rename event the first service of that file is
\* stopped if and only if it is Started, and is then taken out of the
\* registry, the other entries keeping their order and no service being
\* changed; with no service of that file, nothing changes.
C17_DeleteRemoves ==
  /\ [][(DeleteEvent /\ wpc' # wpc) =>
         LET s == Matched(wev.file) IN
           IF s = 0
           THEN svc' = svc /\ list' = list /\ call' = call /\ wpc' = "select"
           ELSE IF svc[s].state = "Started"
           THEN /\ Invoked(WatcherId, "Stop", s)
                /\ svc' = svc /\ list' = list
                /\ wpc' = "deleteStop"
           ELSE /\ list' = Without(list, s)
                /\ svc' = svc /\ call' = call
                /\ wpc' = "select"]_vars
  /\ [][(wpc = "deleteStop" /\ wpc' # wpc) =>
         /\ list' = Without(list, call[WatcherId].svc)
         /\ svc' = svc
         /\ call'[WatcherId] = NoCall
         /\ wpc' = "select"]_vars

\* C17 witness: two services of the registry have the file of the delete
\* event, and the first, which was Started, has been stopped
C17_Witness ==
  /\ wpc = "deleteStop"
  /\ Returned(WatcherId)
  /\ Len(list) = 2
  /\ svc[list[1]].cfg.file = wev.file
  /\ svc[list[2]].cfg.file = wev.file

\* C18: the watcher acknowledges a stop only from its select, with no event
\* in hand, the registry lock released and no call in progress; it sends
\* stopped once, daemonMain receiving it only from an exited watcher; and
\* an exited watcher takes no further step.
C18_StopAtSelect ==
  /\ [](wpc = "exited" => (lock # "watcher" /\ wev = NoEv /\ call[WatcherId] = NoCall))
  /\ [](quitWatcher.stopped = 1 => wpc = "exited")
  /\ [][(quitWatcher'.stopped = 1 /\ quitWatcher.stopped = 0)
          => (wpc = "select" /\ wpc' = "exited")]_vars
  /\ [][wpc = "exited"
          => (wpc' = "exited" /\ call'[WatcherId] = call[WatcherId]
              /\ quitWatcher'.stopped <= quitWatcher.stopped)]_vars

\* C18 witness: the watcher has handled events and has acknowledged the stop
C18_Witness == wpc = "exited" /\ quitWatcher.stopped = 1 /\ nev > 0 /\ list # <<>>

\* the Start() that the start or restart command of h invoked has put its
\* service in Starting, or has returned with the service Started
StartedBy(h) ==
  /\ call[HandlerId(h)].op = "Start"
  /\ \/ call[HandlerId(h)].phase = "running"
     \/ call[HandlerId(h)].phase = "returned" /\ call[HandlerId(h)].res = "ok"
  /\ svc[hst[h]].state \in {"Starting", "Started"}

\* C19: a service that a start or restart command has put in Starting or
\* Started is an entry of the registry, so that the shutdown stops it.
C19_StartedAreRegistered ==
  \A h \in ConnIds : StartedBy(h) => hst[h] \in Elems(list)

\* C20: every connection in the conns channel, and every connection a
\* handler was started for, is one that Accept() returned without error.
C20_OnlyAcceptedConns ==
  /\ \A i \in DOMAIN conns : conns[i].ok
  /\ \A h \in ConnIds : hpc[h] # "nilconn"

\* the row that renders service s in state st
RowOf(s, st) ==
  Row(s, CASE st = "Stopped" -> "STOPPED"
           [] st = "Stopping" -> "STOPPING"
           [] st = "Starting" -> "STARTING"
           [] st = "Started" -> "RUNNING"
           [] st = "Failed" -> "FAILED",
      IF st = "Failed" THEN "boom" ELSE "-")

\* C15: the table of the list command has its rows in registry order, one
\* for each service, and every row is the rendering of its service in one
\* of its states: a FAILED row carries the error of the failure.
C15_ConsistentRows ==
  \A h \in ConnIds : \A i \in DOMAIN hbuf[h] :
    /\ i <= Len(list)
    /\ hbuf[h][i].svc = list[i]
    /\ \E st \in Rendered : hbuf[h][i] = RowOf(list[i], st)
====
